---- MODULE Spec2Model ----
\* Verification model of the cosim_demo ready/valid adder (adder_rv_simple)
\* and of the testbenches that drive and check it.
EXTENDS Integers, Sequences, FiniteSets, TLC

\* ---------------------------------------------------------------------------
\* Bounds and constants
\* ---------------------------------------------------------------------------

\* Data width (the RTL default is 32; reduced for model checking).
W == 2
Mod == 2 ^ W
Mask == Mod - 1
Vals == 0 .. Mask

\* Number of accepted transactions recorded in the adder-only specification.
MaxAcc == 3

\* Iterations of tb_main's randomized loop (2000 in the program).
RndCycles == 4

\* Iterations of tb_main's randomized loop against a black-box DUT.
AnyCycles == 3

\* Drain budget of tb_main's drain loops.
DrainCycles == 64

\* SV harness input files: well-formed files of NLines "a b" lines, and
\* arbitrary files of up to NChunks chunks (a digit or '#', then ' ' or
\* newline); SvVals are the digit values used.
NLines == 3
NChunks == 4
SvVals == 0 .. 1

\* Length of the output/golden arrays compared by the host checkers.
NCmp == 3

\* Comparisons made in the diagnostics specification (more than the cap).
NDiag == 12

\* Number of samples of the host mains (N = 1024 / COSIM_N in the program).
HostN == 2

\* DATAW of the naive squaring dut for arbitrary inputs (16 in the RTL), and
\* the width used for the C inputs i - 512, which need 10 bits.
DataW == 3
DataWC == 10

\* Data width and clock cycles of the single held transaction scenario.
HoldW == 4
HoldCycles == 6
\* cosim_tb input vector length (COSIM_N) in the file-based flow
FileN == 3
\* naive dut: inputs offered before the producer stops
NaMaxAcc == 3
\* naive tb_top: input tokens in the file, clock edges explored
TpN == 3
TpMaxCyc == 12
\* cosim_tb: output tokens (COSIM_N) when reading outputs.txt
TokN == 2
CmpVals == 0 .. 1

VARIABLES
    \* adder_rv_simple registers
    outV, outD, spV, spD,
    \* adder-only environment: accepted / completed logs and stimulus mode
    acc, comp, stim,
    \* tb_main: phase, loop index, scoreboard queue expq, error count, exit code
    phase, idx, expq, errors, exitCode,
    \* tb_main instrumentation: mismatches / protocol violations counted in
    \* errors, last randomized drive, last completion check, last edge
    mism, viol, drv, chk, edge,
    \* SV harness (adder_cosim_tb): main/send_item position, input file text
    \* (ASCII codes), stream position of fin, pair being sent, driven inputs,
    \* clock level, counters, pairs accepted by the DUT, and whether a
    \* send_item ever waited
    svpc, fin, fpos, cur, svInValid, svInA, svInB, clkHigh, nSent, nWritten,
    accSeq, stalled,
    \* lines the consumer has written to the output file (hex digit sequences)
    svOut,
    \* host compare loops: checker, outputs, golden values, index, count, status
    ckKind, gotA, expA, ci, ckCnt, ret,
    \* diagnostics printed by the compare loops and index of the last one
    printed, diagLast,
    \* host mains (naive C main, cosim_tb main): checker, NDEBUG build,
    \* position, return status, compared / read flags, simulator launched and
    \* failed, environment outcomes
    hKind, hNdebug, hpc, hRet, hCompared, hRead, hSimFailed, hEnv,
    \* reference sums: operands, out_ready, tb_main and cosim_tb expected values
    rfA, rfB, rfReady, rfTb, rfCo, rfDone,
    \* naive squaring dut: mode, input, out_data, C golden value
    sqMode, sqX, sqOut, sqGld, sqDone,
    \* single held transaction: producer position, cycle, acceptance cycle,
    \* completed values, completion cycle of the held one, prior contents
    hdPc, hdCyc, hdAccAt, hdComps, hdCompAt, hdPrior,
    \* tb_main reset loop: cycles done, and whether an accept or a completion
    \* happened on a reset edge
    rstCnt, rstEvt,
    \* cosim_tb host: the generated input vector written to the input file
    fileIn,
    \* the last adder edge: pre-edge registers and the inputs it was given
    edPre, edIn,
    \* naive dut: out_valid, out_data, accepted in_data log, completed
    \* out_data log
    naV, naD, naAcc, naComp,
    \* naive tb_top: input tokens, scan position, $feof, driver state,
    \* in_valid, in_data, sent_cnt, recv_cnt, dut out_valid / out_data,
    \* samples parsed, run outcome, cycles since reset release
    tpTok, tpPos, tpEof, tpSt, tpInV, tpInD, tpSent, tpRecv, tpOV, tpOD,
    tpParsed, tpEnd, tpCyc,
    \* cosim_tb reading outputs.txt: tokens, expected sums, return status
    tkOut, tkExp, tkRet

dutVars == <<outV, outD, spV, spD>>
dvVars == <<acc, comp, stim>>
tbVars == <<phase, idx, expq, errors, exitCode, mism, viol, drv, chk, edge>>
svVars == <<svpc, fin, fpos, cur, svInValid, svInA, svInB, clkHigh, nSent,
            nWritten, accSeq, stalled, svOut>>
ckVars == <<ckKind, gotA, expA, ci, ckCnt, ret, printed, diagLast>>
hostVars == <<hKind, hNdebug, hpc, hRet, hCompared, hRead, hSimFailed, hEnv>>
refVars == <<rfA, rfB, rfReady, rfTb, rfCo, rfDone>>
sqVars == <<sqMode, sqX, sqOut, sqGld, sqDone>>
hdVars == <<hdPc, hdCyc, hdAccAt, hdComps, hdCompAt, hdPrior>>
rstVars == <<rstCnt, rstEvt>>
fileVars == <<fileIn>>
edgeVars == <<edPre, edIn>>
naVars == <<naV, naD, naAcc, naComp>>
tpVars == <<tpTok, tpPos, tpEof, tpSt, tpInV, tpInD, tpSent, tpRecv, tpOV,
            tpOD, tpParsed, tpEnd, tpCyc>>
tkVars == <<tkOut, tkExp, tkRet>>
xVars == <<hostVars, refVars, sqVars, hdVars, rstVars, fileVars, edgeVars,
          naVars, tpVars, tkVars>>
otherVars == <<svVars, ckVars, xVars>>
vars == <<outV, outD, spV, spD, acc, comp, stim,
          phase, idx, expq, errors, exitCode, mism, viol, drv, chk, edge,
          svVars, ckVars, xVars>>

\* ---------------------------------------------------------------------------
\* adder_rv_simple (src/unnamed/part_002, module adder_rv_simple)
\* ---------------------------------------------------------------------------

\* Variant of OutBufReady that ignores out_ready.
OutBufReadyNoPull(ov, outReady) == ~ov

\* out_buf_ready = !out_buf_valid || out_ready
OutBufReady(ov, outReady) == ~ov \/ outReady

\* Variant of InReady that never deasserts.
InReadyAlways(sv) == TRUE

\* in_ready = !spill_buf_valid
InReady(sv) == ~sv

\* in_a + in_b truncated to W bits
AddW(a, b) == (a + b) % Mod

\* Variant of AdderNext whose Case 2 omits the !spill_buf_valid test.
AdderNextSpillOverwrite(ov, od, sv, sd, inValid, a, b, outReady) ==
    LET obr == OutBufReady(ov, outReady)
        c1 == IF obr
                THEN IF sv THEN <<TRUE, sd, FALSE>>
                     ELSE IF inValid THEN <<TRUE, AddW(a, b), sv>>
                     ELSE IF outReady THEN <<FALSE, od, sv>>
                     ELSE <<ov, od, sv>>
                ELSE <<ov, od, sv>>
        stash == inValid /\ ~obr
    IN  <<c1[1], c1[2],
          IF stash THEN TRUE ELSE c1[3],
          IF stash THEN AddW(a, b) ELSE sd>>

\* An x/X nibble: printed by "%08h" for X bits, a four-state digit for %h
\* and not a hex digit for std::hex.
XDigit == 16

\* A logic [W-1:0] value with an X or Z bit (read by %h from an x/z digit).
XValue == -1

\* Variant of AddMod without truncation.
AddModNoWrap(a, b, m) == a + b

\* a + b stored in a register of modulus m.
AddMod(a, b, m) ==
    IF a = XValue \/ b = XValue THEN XValue ELSE (a + b) % m

\* Variant of AdderRefill preferring a new input over the spill buffer.
AdderRefillInputFirst(ov, od, sv, sd, inValid, a, b, outReady, m) ==
    IF inValid THEN <<TRUE, AddMod(a, b, m), sv>>
    ELSE IF sv THEN <<TRUE, sd, FALSE>>
    ELSE IF outReady THEN <<FALSE, od, sv>>
    ELSE <<ov, od, sv>>

\* Case 1 body when out_buf_ready: refill from the spill buffer first, else
\* from the input, else mark out_buf empty if the consumer pulls. Returns the
\* next <<out_buf_valid, out_buf_data, spill_buf_valid>>.
AdderRefill(ov, od, sv, sd, inValid, a, b, outReady, m) ==
    IF sv THEN <<TRUE, sd, FALSE>>
    ELSE IF inValid THEN <<TRUE, AddMod(a, b, m), sv>>
    ELSE IF outReady THEN <<FALSE, od, sv>>
    ELSE <<ov, od, sv>>

\* Variant of AdderCase1 testing the consumer pull before the spill buffer.
AdderCase1DrainFirst(ov, od, sv, sd, inValid, a, b, outReady, m) ==
    IF OutBufReady(ov, outReady)
      THEN IF ~inValid /\ outReady THEN <<FALSE, od, sv>>
           ELSE AdderRefill(ov, od, sv, sd, inValid, a, b, outReady, m)
      ELSE <<ov, od, sv>>

\* Case 1: if (out_buf_ready) ...; otherwise out_buf and spill_buf_valid
\* keep their values.
AdderCase1(ov, od, sv, sd, inValid, a, b, outReady, m) ==
    IF OutBufReady(ov, outReady)
      THEN AdderRefill(ov, od, sv, sd, inValid, a, b, outReady, m)
      ELSE <<ov, od, sv>>

\* Variant of AdderStash without the !out_buf_ready test.
AdderStashIgnoreReady(ov, sv, inValid, outReady) == inValid /\ ~sv

\* Case 2: in_valid && !out_buf_ready && !spill_buf_valid.
AdderStash(ov, sv, inValid, outReady) ==
    inValid /\ ~OutBufReady(ov, outReady) /\ ~sv

\* Variant of AdderNextM whose drain branch never clears out_buf_valid.
AdderNextMKeepValid(ov, od, sv, sd, inValid, a, b, outReady, m) ==
    LET obr == OutBufReady(ov, outReady)
        c1 == IF obr
                THEN IF sv THEN <<TRUE, sd, FALSE>>
                     ELSE IF inValid THEN <<TRUE, AddMod(a, b, m), sv>>
                     ELSE <<ov, od, sv>>
                ELSE <<ov, od, sv>>
        stash == inValid /\ ~obr /\ ~sv
    IN  <<c1[1], c1[2],
          IF stash THEN TRUE ELSE c1[3],
          IF stash THEN AddMod(a, b, m) ELSE sd>>

\* One posedge of the always_ff block (rst_n = 1) for data registers of
\* modulus m = 2^W: returns the next
\* <<out_buf_valid, out_buf_data, spill_buf_valid, spill_buf_data>>.
AdderNextM(ov, od, sv, sd, inValid, a, b, outReady, m) ==
    LET c1 == AdderCase1(ov, od, sv, sd, inValid, a, b, outReady, m)
        stash == AdderStash(ov, sv, inValid, outReady)
    IN  <<c1[1], c1[2],
          IF stash THEN TRUE ELSE c1[3],
          IF stash THEN AddMod(a, b, m) ELSE sd>>

\* adder_rv_simple with the model's width W.
AdderNext(ov, od, sv, sd, inValid, a, b, outReady) ==
    AdderNextM(ov, od, sv, sd, inValid, a, b, outReady, Mod)

\* State after the reset sequence.
DutInit ==
    /\ outV = FALSE /\ outD = 0 /\ spV = FALSE /\ spD = 0

\* Variant of DutEdge whose flops see out_ready = 1 whatever the consumer
\* drives.
DutEdgeNoBackpressure(inValid, a, b, outReady) ==
    LET n == AdderNext(outV, outD, spV, spD, inValid, a, b, TRUE)
    IN  /\ outV' = n[1] /\ outD' = n[2] /\ spV' = n[3] /\ spD' = n[4]

\* Apply one posedge with the given pre-edge inputs.
DutEdge(inValid, a, b, outReady) ==
    LET n == AdderNext(outV, outD, spV, spD, inValid, a, b, outReady)
    IN  /\ outV' = n[1] /\ outD' = n[2] /\ spV' = n[3] /\ spD' = n[4]

\* ---------------------------------------------------------------------------
\* Adder under an arbitrary producer/consumer (SpecDUT).
\* acc logs a_k + b_k of every accepted input (pre-edge in_valid && in_ready);
\* comp logs the pre-edge out_sum of every completion (out_valid && out_ready);
\* the edges stop after MaxAcc + 1 completions, one more than a correct DUT
\* can produce from MaxAcc acceptances.
\* ---------------------------------------------------------------------------

SvIdle ==
    /\ svpc = "idle" /\ fin = << >> /\ fpos = 0 /\ cur = <<0, 0>>
    /\ svInValid = FALSE /\ svInA = 0 /\ svInB = 0 /\ clkHigh = TRUE
    /\ nSent = 0 /\ nWritten = 0 /\ accSeq = << >> /\ stalled = FALSE
    /\ svOut = << >>

CkIdle ==
    /\ ckKind = "idle" /\ gotA = << >> /\ expA = << >> /\ ci = 0
    /\ ckCnt = 0 /\ ret = -1 /\ printed = 0 /\ diagLast = -1

HostIdle ==
    /\ hKind = "idle" /\ hNdebug = FALSE /\ hpc = "idle" /\ hRet = -1
    /\ hCompared = FALSE /\ hRead = FALSE /\ hSimFailed = FALSE
    /\ hEnv = [oom |-> "none", write |-> TRUE, sim |-> TRUE, tool |-> "none",
               fileLen |-> 0, mism |-> 0]

RefIdle ==
    /\ rfA = 0 /\ rfB = 0 /\ rfReady = FALSE /\ rfTb = 0 /\ rfCo = 0
    /\ rfDone = FALSE

SqIdle ==
    /\ sqMode = "idle" /\ sqX = 0 /\ sqOut = 0 /\ sqGld = 0 /\ sqDone = FALSE

HdIdle ==
    /\ hdPc = "idle" /\ hdCyc = 0 /\ hdAccAt = -1 /\ hdComps = << >>
    /\ hdCompAt = -1 /\ hdPrior = << >>

RstIdle == rstCnt = 0 /\ rstEvt = FALSE

FileIdle == fileIn = << >>

EdIdle ==
    /\ edPre = [ov |-> FALSE, od |-> 0, sv |-> FALSE, sd |-> 0]
    /\ edIn = [set |-> FALSE, valid |-> FALSE, a |-> 0, b |-> 0, ready |-> FALSE]

NaIdle == naV = FALSE /\ naD = 0 /\ naAcc = << >> /\ naComp = << >>

TpIdle ==
    /\ tpTok = << >> /\ tpPos = 1 /\ tpEof = FALSE /\ tpSt = "idle"
    /\ tpInV = FALSE /\ tpInD = 0 /\ tpSent = 0 /\ tpRecv = 0
    /\ tpOV = FALSE /\ tpOD = 0 /\ tpParsed = 0 /\ tpEnd = "run" /\ tpCyc = 0

TkIdle == tkOut = << >> /\ tkExp = << >> /\ tkRet = -1

XIdle == HostIdle /\ RefIdle /\ SqIdle /\ HdIdle /\ RstIdle /\ FileIdle
         /\ EdIdle /\ NaIdle /\ TpIdle /\ TkIdle

TbIdle ==
    /\ phase = "idle" /\ idx = 0 /\ expq = << >> /\ errors = 0
    /\ exitCode = -1 /\ mism = 0 /\ viol = 0
    /\ drv = [valid |-> FALSE, a |-> 0, b |-> 0, acc |-> FALSE]
    /\ chk = [dec |-> FALSE, got |-> 0, preComp |-> FALSE, preSum |-> 0]
    /\ edge = [acc |-> FALSE, comp |-> FALSE, headBefore |-> FALSE,
               popNew |-> FALSE, violCounted |-> FALSE]

DvInit ==
    /\ DutInit
    /\ acc = << >> /\ comp = << >> /\ stim = "on"
    /\ TbIdle /\ SvIdle /\ CkIdle /\ XIdle

DvLog(inValid, a, b, outReady) ==
    /\ acc' = IF inValid /\ InReady(spV) THEN Append(acc, AddW(a, b)) ELSE acc
    /\ comp' = IF outV /\ outReady THEN Append(comp, outD) ELSE comp

\* A clock cycle while stimulus is running: any in_valid/payload/out_ready.
DvEdge ==
    /\ stim = "on" /\ Len(comp) <= MaxAcc
    /\ \E inValid \in BOOLEAN, a \in Vals, b \in Vals, outReady \in BOOLEAN :
         /\ inValid => Len(acc) < MaxAcc
         /\ DvLog(inValid, a, b, outReady)
         /\ DutEdge(inValid, a, b, outReady)
    /\ UNCHANGED stim
    /\ UNCHANGED tbVars /\ UNCHANGED otherVars

\* Stimulus ends: from now on in_valid = 0 and out_ready = 1.
DvEndStim ==
    /\ stim = "on"
    /\ stim' = "off"
    /\ UNCHANGED <<outV, outD, spV, spD, acc, comp>>
    /\ UNCHANGED tbVars /\ UNCHANGED otherVars

\* A drain cycle: in_valid = 0, out_ready = 1.
DvDrainEdge ==
    /\ stim = "off" /\ Len(comp) <= MaxAcc
    /\ DvLog(FALSE, 0, 0, TRUE)
    /\ DutEdge(FALSE, 0, 0, TRUE)
    /\ UNCHANGED stim
    /\ UNCHANGED tbVars /\ UNCHANGED otherVars

DvNext == DvEdge \/ DvEndStim \/ DvDrainEdge

SpecDUT == DvInit /\ [][DvNext]_vars

SpecDUTFair == SpecDUT /\ WF_vars(DvDrainEdge)

\* C1: order preservation. The k-th completion carries (a_k + b_k) mod 2^W of
\* the k-th accepted input; completions never reorder, skip or duplicate.
OrderPreserved ==
    /\ Len(comp) <= Len(acc)
    /\ \A k \in 1 .. Len(comp) : comp[k] = acc[k]

\* C1 witness: both buffers hold data after a completion has been observed.
OrderPreservedWitness ==
    /\ outV /\ spV /\ Len(comp) >= 1 /\ Len(acc) = MaxAcc

\* C2: no data loss. Once stimulus ends (in_valid 0, out_ready 1 every later
\* cycle), eventually out_valid is 0 and every accepted input has completed
\* exactly once, i.e. the scoreboard queue acc[Len(comp)+1..] is empty.
NoDataLoss ==
    (stim = "off") ~> (~outV /\ ~spV /\ comp = acc)

\* C2 witness: drained after several accepted inputs.
NoDataLossWitness ==
    /\ stim = "off" /\ ~outV /\ comp = acc /\ Len(acc) >= 2

\* ---------------------------------------------------------------------------
\* tb_main (src/verilator-based/rv_adder_example/sim/tb_main.cpp)
\* ---------------------------------------------------------------------------

\* Directed vectors dirv[] (masked to W bits).
DirVecs == << <<0, 0>>, <<1, 0>>, <<0, 1>>, <<1, 1>>, <<Mask, 1>>, <<Mask, Mask>> >>

\* Variant of CountMismatch that sets a flag instead of counting.
CountMismatchFlag(cnt, got, exp) == IF got # exp THEN 1 ELSE cnt

\* One comparison: count it when observed differs from expected.
CountMismatch(cnt, got, exp) == IF got # exp THEN cnt + 1 ELSE cnt

\* Final status: "TEST FAIL" returns 1, "TEST PASS" returns 0.
TbExit(e) == IF e # 0 THEN 1 ELSE 0

\* Completion check of one edge: dec is the code's decision that an output
\* fired, got the value it compares. Returns the queue after the pop and the
\* increments of errors / mismatches / protocol violations.
PopCheck(q, dec, got) ==
    IF ~dec THEN [q |-> q, m |-> 0, v |-> 0]
    ELSE IF q = << >> THEN [q |-> q, m |-> 0, v |-> 1]
    ELSE [q |-> Tail(q), m |-> CountMismatch(0, got, Head(q)), v |-> 0]

\* The scoreboard update of one edge. q0 is expq before the edge, pushed
\* tells whether an expectation pv was pushed before the check, dec/got the
\* completion decision and compared value, and preValid/preReady/preSum the
\* DUT outputs just before the edge.
TbCheck(q0, pushed, pv, dec, got, preValid, preReady, preSum) ==
    LET q1 == IF pushed THEN Append(q0, pv) ELSE q0
        r == PopCheck(q1, dec, got)
    IN  /\ expq' = r.q
        /\ errors' = errors + r.m + r.v
        /\ mism' = mism + r.m
        /\ viol' = viol + r.v
        /\ chk' = [dec |-> dec, got |-> got,
                   preComp |-> preValid /\ preReady, preSum |-> preSum]
        /\ edge' = [acc |-> pushed, comp |-> dec, headBefore |-> q0 # << >>,
                    popNew |-> pushed /\ dec /\ q0 = << >>,
                    violCounted |-> r.v = 1]

TbInit ==
    /\ DutInit
    /\ acc = << >> /\ comp = << >> /\ stim = "on"
    /\ phase = "dir" /\ idx = 0 /\ expq = << >> /\ errors = 0
    /\ exitCode = -1 /\ mism = 0 /\ viol = 0
    /\ drv = [valid |-> FALSE, a |-> 0, b |-> 0, acc |-> FALSE]
    /\ chk = [dec |-> FALSE, got |-> 0, preComp |-> FALSE, preSum |-> 0]
    /\ edge = [acc |-> FALSE, comp |-> FALSE, headBefore |-> FALSE,
               popNew |-> FALSE, violCounted |-> FALSE]
    /\ SvIdle /\ CkIdle /\ XIdle

\* Directed smoke loop body: drive vector, push if accepted, posedge, then
\* compare using out_valid/out_sum read after the posedge eval.
DirStep ==
    /\ phase = "dir" /\ idx < Len(DirVecs)
    /\ LET a == DirVecs[idx + 1][1]
           b == DirVecs[idx + 1][2]
           n == AdderNext(outV, outD, spV, spD, TRUE, a, b, TRUE)
       IN  /\ DutEdge(TRUE, a, b, TRUE)
           /\ TbCheck(expq, InReady(spV), AddW(a, b), n[1], n[2],
                      outV, TRUE, outD)
    /\ idx' = idx + 1
    /\ UNCHANGED <<phase, exitCode, drv>>
    /\ UNCHANGED dvVars /\ UNCHANGED otherVars

DirExit ==
    /\ phase = "dir" /\ idx = Len(DirVecs)
    /\ phase' = "dirdrain" /\ idx' = 0
    /\ UNCHANGED <<expq, errors, exitCode, mism, viol, drv, chk, edge>>
    /\ UNCHANGED dutVars /\ UNCHANGED dvVars /\ UNCHANGED otherVars

\* Variant of DrainCond without the out_valid test.
DrainCondQueueOnly == idx < DrainCycles /\ expq # << >>

\* Drain loop condition: i < 64 && (!expq.empty() || top->out_valid).
DrainCond == idx < DrainCycles /\ (expq # << >> \/ outV)

\* Drain loop body (directed drain and final drain): in_valid = 0,
\* out_ready = 1, posedge, compare using values read after the posedge eval.
DrainBody ==
    LET n == AdderNext(outV, outD, spV, spD, FALSE, 0, 0, TRUE)
    IN  /\ DutEdge(FALSE, 0, 0, TRUE)
        /\ TbCheck(expq, FALSE, 0, n[1], n[2], outV, TRUE, outD)
        /\ idx' = idx + 1

DirDrainStep ==
    /\ phase = "dirdrain" /\ DrainCond
    /\ DrainBody
    /\ UNCHANGED <<phase, exitCode, drv>>
    /\ UNCHANGED dvVars /\ UNCHANGED otherVars

DirDrainExit ==
    /\ phase = "dirdrain" /\ ~DrainCond
    /\ phase' = "rnd" /\ idx' = 0
    /\ UNCHANGED <<expq, errors, exitCode, mism, viol, drv, chk, edge>>
    /\ UNCHANGED dutVars /\ UNCHANGED dvVars /\ UNCHANGED otherVars

\* Variant of RndStep deciding the completion from values read after the
\* posedge eval.
RndStepPostEdge ==
    /\ phase = "rnd" /\ idx < RndCycles
    /\ \E present \in BOOLEAN, ready \in BOOLEAN, a \in Vals, b \in Vals :
         LET n == AdderNext(outV, outD, spV, spD, present, a, b, ready)
         IN  /\ DutEdge(present, a, b, ready)
             /\ TbCheck(expq, present /\ InReady(spV), AddW(a, b),
                        n[1] /\ ready, n[2], outV, ready, outD)
             /\ drv' = [valid |-> present, a |-> a, b |-> b,
                        acc |-> present /\ InReady(spV)]
    /\ idx' = idx + 1
    /\ UNCHANGED <<phase, exitCode>>
    /\ UNCHANGED dvVars /\ UNCHANGED otherVars

\* Randomized loop body: drive present/ready/a/b, snapshot pre-edge outputs,
\* push if in_valid && in_ready, posedge, then pop/compare on the snapshot.
RndStep ==
    /\ phase = "rnd" /\ idx < RndCycles
    /\ \E present \in BOOLEAN, ready \in BOOLEAN, a \in Vals, b \in Vals :
         /\ DutEdge(present, a, b, ready)
         /\ TbCheck(expq, present /\ InReady(spV), AddW(a, b),
                    outV /\ ready, outD, outV, ready, outD)
         /\ drv' = [valid |-> present, a |-> a, b |-> b,
                    acc |-> present /\ InReady(spV)]
    /\ idx' = idx + 1
    /\ UNCHANGED <<phase, exitCode>>
    /\ UNCHANGED dvVars /\ UNCHANGED otherVars

RndExit ==
    /\ phase = "rnd" /\ idx = RndCycles
    /\ phase' = "drain" /\ idx' = 0
    /\ UNCHANGED <<expq, errors, exitCode, mism, viol, drv, chk, edge>>
    /\ UNCHANGED dutVars /\ UNCHANGED dvVars /\ UNCHANGED otherVars

DrainStep ==
    /\ phase = "drain" /\ DrainCond
    /\ DrainBody
    /\ UNCHANGED <<phase, exitCode, drv>>
    /\ UNCHANGED dvVars /\ UNCHANGED otherVars

\* Leaving the final drain: report and return the exit status.
DrainExit ==
    /\ phase = "drain" /\ ~DrainCond
    /\ phase' = "done" /\ exitCode' = TbExit(errors)
    /\ UNCHANGED <<idx, expq, errors, mism, viol, drv, chk, edge>>
    /\ UNCHANGED dutVars /\ UNCHANGED dvVars /\ UNCHANGED otherVars

TbNext == DirStep \/ DirExit \/ DirDrainStep \/ DirDrainExit
          \/ RndStep \/ RndExit \/ DrainStep \/ DrainExit

SpecTB == TbInit /\ [][TbNext]_vars

\* tb_main's randomized loop against a black-box DUT whose pre-edge
\* out_valid, out_sum and in_ready may take any value on each cycle.
AnyInit ==
    /\ DutInit
    /\ acc = << >> /\ comp = << >> /\ stim = "on"
    /\ phase = "rnd" /\ idx = 0 /\ expq = << >> /\ errors = 0
    /\ exitCode = -1 /\ mism = 0 /\ viol = 0
    /\ drv = [valid |-> FALSE, a |-> 0, b |-> 0, acc |-> FALSE]
    /\ chk = [dec |-> FALSE, got |-> 0, preComp |-> FALSE, preSum |-> 0]
    /\ edge = [acc |-> FALSE, comp |-> FALSE, headBefore |-> FALSE,
               popNew |-> FALSE, violCounted |-> FALSE]
    /\ SvIdle /\ CkIdle /\ XIdle

RndStepAny ==
    /\ phase = "rnd" /\ idx < AnyCycles
    /\ \E present \in BOOLEAN, ready \in BOOLEAN, a \in Vals, b \in Vals,
          preValid \in BOOLEAN, preSum \in Vals, inReady \in BOOLEAN :
         /\ TbCheck(expq, present /\ inReady, AddW(a, b),
                    preValid /\ ready, preSum, preValid, ready, preSum)
         /\ drv' = [valid |-> present, a |-> a, b |-> b,
                    acc |-> present /\ inReady]
    /\ idx' = idx + 1
    /\ UNCHANGED <<phase, exitCode>>
    /\ UNCHANGED dutVars /\ UNCHANGED dvVars /\ UNCHANGED otherVars

SpecAny == AnyInit /\ [][RndStepAny]_vars

\* C3: held stimulus. If the randomized driver offers (a,b) on cycle K and it
\* is not accepted, cycle K+1 offers in_valid 1 with the same (a,b).
HeldStimulus ==
    [][(phase = "rnd" /\ idx' = idx + 1 /\ idx >= 1 /\ drv.valid /\ ~drv.acc)
         => (drv'.valid /\ drv'.a = drv.a /\ drv'.b = drv.b)]_vars

\* C5: when a completion and an acceptance happen on the same edge, the
\* completion is never compared with the expectation pushed on that edge.
SameEdgePopFirst ==
    (edge.acc /\ edge.comp) => ~edge.popNew

\* C6: a completion on an edge where expq held no expectation from an earlier
\* edge is counted as a protocol violation.
SpuriousDetected ==
    (edge.comp /\ ~edge.headBefore) => edge.violCounted

\* C7: in every phase the completion decision and the compared value are the
\* pre-edge out_valid && out_ready and out_sum.
PreEdgeSampling ==
    /\ chk.dec = chk.preComp
    /\ chk.dec => chk.got = chk.preSum

\* C8: after the randomized phase and the final drain, no mismatch, no
\* protocol violation, and the scoreboard queue is empty.
RandomRunClean ==
    phase = "done" => (mism = 0 /\ viol = 0 /\ expq = << >>)

\* C9: a queue still non-empty when the drain ends is a failure whose exit
\* code differs from PASS (0) and from the mismatch code (1).
DrainTimeoutDistinct ==
    (phase = "done" /\ expq # << >>) => exitCode \notin {0, 1}

\* ---------------------------------------------------------------------------
\* File-based SV harness adder_cosim_tb (src/unnamed/part_001; rv_cosim_tb in
\* src/adder/sw/cosim_tb.cpp has the same send_item). The input file is a
\* sequence of ASCII codes read by the main loop
\*   while (!$feof(fin)) { r = $fscanf(fin, "%h %h\n", a, b);
\*                         if (r == 2) send_item(a, b) else $fgets(line, fin) }
\* ---------------------------------------------------------------------------

\* n hex digits of v, most significant first ("%08h", setw(8) setfill('0')).
RECURSIVE HexDigits(_, _)
HexDigits(v, n) ==
    IF n = 0 THEN << >> ELSE Append(HexDigits(v \div 16, n - 1), v % 16)

\* Value of a sequence of hex digits.
RECURSIVE ParseHex(_)
ParseHex(d) ==
    IF d = << >> THEN 0
    ELSE ParseHex(SubSeq(d, 1, Len(d) - 1)) * 16 + d[Len(d)]

\* One output line of the consumer: $fwrite(fout, "%08h\n", out_sum).
HexLine(v) ==
    IF v = XValue
      THEN [i \in 1 .. 8 |-> IF i > 8 - (W + 3) \div 4 THEN XDigit ELSE 0]
      ELSE HexDigits(v, 8)

ChNl == 10
ChSp == 32
ChHash == 35
ChZero == 48

\* ASCII code of hex digit d as std::hex / %h print it (lower case).
HexChar(d) == IF d < 10 THEN ChZero + d ELSE 87 + d

\* Value of a %h digit character: 0 .. 15, XDigit for the four-state digits
\* x X z Z ?, -1 for any other character ('#', '_', etc.).
HexCharVal(c) ==
    IF c \in 48 .. 57 THEN c - 48
    ELSE IF c \in 97 .. 102 THEN c - 87
    ELSE IF c \in 65 .. 70 THEN c - 55
    ELSE IF c \in {63, 88, 90, 120, 122} THEN XDigit
    ELSE -1

\* First position at or after p that is not white space (Len(f) + 1 at EOF):
\* a white-space directive and %h skip \t \n \v \f \r and ' '.
SkipWs(f, p) ==
    LET sk[i \in 1 .. Len(f) + 1] ==
            IF i <= Len(f) /\ f[i] \in {9, 10, 11, 12, 13, 32} THEN sk[i + 1] ELSE i
    IN  sk[p]

\* End of the %h number starting at p: a run of digits and '_'.
HexEnd(f, p) ==
    LET he[i \in 1 .. Len(f) + 1] ==
            IF i <= Len(f) /\ (HexCharVal(f[i]) >= 0 \/ f[i] = 95)
              THEN he[i + 1] ELSE i
    IN  he[p]

\* %h into logic [W-1:0]: the digits of f[p .. q-1] ('_' ignored), keeping
\* the low W bits; XValue when an x/z digit reaches those bits.
HexValue(f, p, q) ==
    LET hv[i \in p .. q] ==
            IF i = p THEN [v |-> 0, x |-> 0]
            ELSE IF f[i - 1] = 95 THEN hv[i - 1]
            ELSE LET d == HexCharVal(f[i - 1])
                 IN  [v |-> (hv[i - 1].v * 16 + (IF d = XDigit THEN 0 ELSE d)) % Mod,
                      x |-> (hv[i - 1].x * 16 + (IF d = XDigit THEN 15 ELSE 0)) % Mod]
    IN  IF hv[q].x # 0 THEN XValue ELSE hv[q].v

\* r = $fscanf(fin, "%h %h\n", a, b) from position p: each %h skips white
\* space, newlines included, and fails at a non-digit character or EOF; the
\* trailing "\n" skips all white space. pos is where reading stopped.
FscanfPair(f, p) ==
    LET p1 == SkipWs(f, p)
        e1 == HexEnd(f, p1)
        p2 == SkipWs(f, e1)
        e2 == HexEnd(f, p2)
    IN  IF e1 = p1
          THEN [r |-> IF p1 > Len(f) THEN -1 ELSE 0, pos |-> p1, a |-> 0, b |-> 0]
        ELSE IF e2 = p2
          THEN [r |-> 1, pos |-> p2, a |-> HexValue(f, p1, e1), b |-> 0]
        ELSE [r |-> 2, pos |-> SkipWs(f, e2),
              a |-> HexValue(f, p1, e1), b |-> HexValue(f, p2, e2)]

\* $fgets(line, fin) from p: up to and including the next newline.
FgetsEnd(f, p) ==
    LET fg[i \in 1 .. Len(f) + 1] ==
            IF i > Len(f) THEN i ELSE IF f[i] = ChNl THEN i + 1 ELSE fg[i + 1]
    IN  fg[p]

\* The while loop from position p (eof: $feof(fin)) up to the next r == 2
\* or the loop exit. After r == 2 the trailing white-space skip has looked
\* at pos, so $feof holds exactly when pos is past the end; $fgets sets
\* $feof when no newline is left.
MainLoop(f, p, eof) ==
    LET ml[i \in 1 .. Len(f) + 1] ==
            LET s == FscanfPair(f, i)
                q == FgetsEnd(f, s.pos)
            IN  IF s.r = 2
                  THEN [found |-> TRUE, pos |-> s.pos, a |-> s.a, b |-> s.b]
                ELSE IF ~\E j \in s.pos .. Len(f) : f[j] = ChNl
                  THEN [found |-> FALSE, pos |-> q, a |-> 0, b |-> 0]
                ELSE ml[q]
    IN  IF eof THEN [found |-> FALSE, pos |-> p, a |-> 0, b |-> 0] ELSE ml[p]

\* The pairs the loop passes to send_item, in order, from position p.
RECURSIVE PairsFrom(_, _, _)
PairsFrom(f, p, eof) ==
    LET m == MainLoop(f, p, eof)
    IN  IF m.found THEN <<<<m.a, m.b>>>> \o PairsFrom(f, m.pos, m.pos > Len(f))
        ELSE << >>

\* The pairs sent for the whole input file.
Pairs == PairsFrom(fin, 1, FALSE)

\* Concatenation of a sequence of character sequences.
RECURSIVE Concat(_)
Concat(cs) == IF cs = << >> THEN << >> ELSE Head(cs) \o Concat(Tail(cs))

\* Input files: every file of up to NChunks chunks (a digit, 'x', '_' or
\* '#', then a space or a newline), and every well-formed file of NLines
\* lines "a b\n".
FinFiles ==
    LET chunks == {<<c, s>> : c \in {HexChar(d) : d \in SvVals} \cup {120, 95, ChHash},
                              s \in {ChSp, ChNl}}
    IN  {Concat(cs) : cs \in UNION {[1 .. n -> chunks] : n \in 0 .. NChunks}}
    \cup {Concat([i \in 1 .. NLines |-> <<HexChar(ps[i][1]), ChSp, HexChar(ps[i][2]), ChNl>>]) :
            ps \in [1 .. NLines -> SvVals \X SvVals]}

\* The main while loop from position k until it blocks: in send_item waiting
\* for the next negedge, or after the loop in wait (n_written == n_sent) or,
\* if that already holds, at the @(posedge clk) that follows it.
SvRead(k, sentNow, writtenNow) ==
    \E m \in {MainLoop(fin, k, k > Len(fin))} :
        /\ fpos' = m.pos
        /\ IF m.found
             THEN /\ svpc' = "neg1" /\ cur' = <<m.a, m.b>>
             ELSE /\ svpc' = IF writtenNow = sentNow THEN "final" ELSE "drainwait"
                  /\ cur' = cur

\* Variant of SendItemAccepted that leaves the do-while after one posedge.
SendItemAcceptedNoWait(inReady) == TRUE

\* do @(posedge clk); while (!in_ready); -- in_ready read in the active
\* region of the posedge, before the DUT's nonblocking updates.
SendItemAccepted(inReady) == inReady

\* State after reset and file open: main has read up to the first pair.
SvInit ==
    /\ DutInit
    /\ acc = << >> /\ comp = << >> /\ stim = "on"
    /\ TbIdle /\ CkIdle /\ XIdle
    /\ fin \in FinFiles
    /\ svInValid = FALSE /\ svInA = 0 /\ svInB = 0 /\ clkHigh = TRUE
    /\ nSent = 0 /\ nWritten = 0 /\ accSeq = << >> /\ stalled = FALSE
    /\ svOut = << >>
    /\ LET m == MainLoop(fin, 1, FALSE)
       IN  /\ svpc = IF m.found THEN "neg1" ELSE "final"
           /\ fpos = m.pos
           /\ cur = IF m.found THEN <<m.a, m.b>> ELSE <<0, 0>>

\* negedge: send_item drives in_a/in_b/in_valid <= 1, or deasserts in_valid,
\* returns, n_sent++ and main reads on.
SvNegedge ==
    /\ clkHigh /\ svpc # "done"
    /\ clkHigh' = FALSE
    /\ CASE svpc = "neg1" ->
              /\ svInA' = cur[1] /\ svInB' = cur[2] /\ svInValid' = TRUE
              /\ svpc' = "pos"
              /\ UNCHANGED <<fpos, cur, nSent>>
         [] svpc = "neg2" ->
              /\ svInValid' = FALSE /\ nSent' = nSent + 1
              /\ SvRead(fpos, nSent + 1, nWritten)
              /\ UNCHANGED <<svInA, svInB>>
         [] OTHER ->
              UNCHANGED <<svpc, fpos, cur, svInValid, svInA, svInB, nSent>>
    /\ UNCHANGED <<fin, nWritten, accSeq, stalled, svOut>>
    /\ UNCHANGED dutVars /\ UNCHANGED dvVars /\ UNCHANGED tbVars
    /\ UNCHANGED ckVars /\ UNCHANGED xVars

\* posedge with the given out_ready: DUT update, consumer writes out_sum
\* ($fwrite "%08h\n") on out_valid && out_ready, send_item's do-while tests
\* in_ready, main's drain wait advances.
SvPosedgeHarness(outReady) ==
    /\ ~clkHigh /\ svpc # "done"
    /\ clkHigh' = TRUE
    /\ nWritten' = IF outV /\ outReady THEN nWritten + 1 ELSE nWritten
    /\ svOut' = IF outV /\ outReady THEN Append(svOut, HexLine(outD))
                                    ELSE svOut
    /\ accSeq' = IF svInValid /\ InReady(spV)
                   THEN Append(accSeq, <<svInA, svInB>>) ELSE accSeq
    /\ CASE svpc = "pos" ->
              /\ svpc' = IF SendItemAccepted(InReady(spV)) THEN "neg2" ELSE "pos"
              /\ stalled' = (stalled \/ ~InReady(spV))
         [] svpc = "drainwait" ->
              /\ svpc' = IF nWritten' = nSent THEN "final" ELSE "drainwait"
              /\ UNCHANGED stalled
         [] svpc = "final" ->
              /\ svpc' = "done"
              /\ UNCHANGED stalled
         [] OTHER -> UNCHANGED <<svpc, stalled>>
    /\ UNCHANGED <<fin, fpos, cur, svInValid, svInA, svInB, nSent>>
    /\ UNCHANGED dvVars /\ UNCHANGED tbVars /\ UNCHANGED ckVars /\ UNCHANGED xVars

SvPosedgeAt(outReady) ==
    /\ SvPosedgeHarness(outReady)
    /\ DutEdge(svInValid, svInA, svInB, outReady)

\* The harness holds out_ready = 1; send_item is checked here against a
\* consumer that may also hold out_ready low, so that in_ready can be 0.
SvPosedge == \E outReady \in BOOLEAN : SvPosedgeAt(outReady)

SvNext == SvNegedge \/ SvPosedge

SpecSV == SvInit /\ [][SvNext]_vars

\* C4: send_item holds in_valid = 1 and in_a/in_b from its negedge through the
\* first posedge with in_ready = 1, deasserts in_valid before the following
\* posedge, and every pair $fscanf parses is accepted exactly once, in file
\* order.
SendItemHolds ==
    /\ svpc \in {"pos", "neg2"} => (svInValid /\ svInA = cur[1] /\ svInB = cur[2])
    /\ svpc \in {"neg1", "drainwait", "final", "done"} => ~svInValid
    /\ Len(accSeq) = nSent + (IF svpc = "neg2" THEN 1 ELSE 0)
    /\ Len(accSeq) <= Len(Pairs)
    /\ accSeq = SubSeq(Pairs, 1, Len(accSeq))
    /\ svpc = "done" => accSeq = Pairs

\* C4 witness: a file whose NLines lines were all sent, one send_item waited on in_ready = 0,
\* and the harness finished.
SendItemHoldsWitness ==
    /\ svpc = "done" /\ stalled /\ Len(accSeq) = NLines

\* ---------------------------------------------------------------------------
\* Compare loops and final status: cosim_tb.cpp main (src/adder/sw/cosim_tb.cpp),
\* the naive C main (src/unnamed/part_000) and tb_main's errors/return.
\* ---------------------------------------------------------------------------

CmpKinds == {"cosim", "naive", "tb"}

\* Variant of HostExit returning 1 on mismatches.
HostExitOne(m) == IF m = 0 THEN 0 ELSE 1

\* return (mism == 0) ? 0 : 5
HostExit(m) == IF m = 0 THEN 0 ELSE 5

CkInit ==
    /\ DutInit
    /\ acc = << >> /\ comp = << >> /\ stim = "on"
    /\ TbIdle /\ SvIdle /\ XIdle
    /\ ckKind \in CmpKinds
    /\ gotA \in [1 .. NCmp -> CmpVals]
    /\ expA \in [1 .. NCmp -> CmpVals]
    /\ ci = 0 /\ ckCnt = 0 /\ ret = -1 /\ printed = 0 /\ diagLast = -1

\* Diagnostic cap of the host checkers: if (mism < 10) print.
MaxDiag == 10

\* Whether a mismatch found when m mismatches were already counted prints a
\* diagnostic line: the host loops print while mism < 10, tb_main prints
\* every mismatch (fprintf at each got != exp).
PrintsDiag(kind, m) == kind = "tb" \/ m < MaxDiag

\* Loop body at index ci (0-based): count, and print "MISMATCH @i".
CkCompare(got, exp) ==
    /\ ckCnt' = CountMismatch(ckCnt, got, exp)
    /\ printed' = IF got # exp /\ PrintsDiag(ckKind, ckCnt)
                    THEN printed + 1 ELSE printed
    /\ diagLast' = IF got # exp /\ PrintsDiag(ckKind, ckCnt)
                     THEN ci ELSE diagLast

\* for (i = 0; i < N; ++i) if (out[i] != gld[i]) ... ++mism;
CkStep ==
    /\ ci < NCmp
    /\ CkCompare(gotA[ci + 1], expA[ci + 1])
    /\ ci' = ci + 1
    /\ UNCHANGED <<ckKind, gotA, expA, ret>>
    /\ UNCHANGED dutVars /\ UNCHANGED dvVars /\ UNCHANGED tbVars
    /\ UNCHANGED svVars /\ UNCHANGED xVars

CkFinish ==
    /\ ci = NCmp /\ ret = -1
    /\ ret' = IF ckKind = "tb" THEN TbExit(ckCnt) ELSE HostExit(ckCnt)
    /\ UNCHANGED <<ckKind, gotA, expA, ci, ckCnt, printed, diagLast>>
    /\ UNCHANGED dutVars /\ UNCHANGED dvVars /\ UNCHANGED tbVars
    /\ UNCHANGED svVars /\ UNCHANGED xVars

CkNext == CkStep \/ CkFinish

SpecCmp == CkInit /\ [][CkNext]_vars

\* C10: every mismatching position is counted, the loop visits all positions,
\* and the status is 0 (PASS) exactly when the count is 0.
MismatchCounted ==
    ret # -1 =>
        /\ ckCnt = Cardinality({i \in 1 .. NCmp : gotA[i] # expA[i]})
        /\ (ret = 0 <=> ckCnt = 0)

\* C10 witness: several mismatches were counted and the status returned.
MismatchCountedWitness ==
    ret # -1 /\ ckCnt >= 2

\* The compare loops over NDiag comparisons whose outcomes are drawn on
\* each iteration (SpecDiag).
DgInit ==
    /\ DutInit
    /\ acc = << >> /\ comp = << >> /\ stim = "on"
    /\ TbIdle /\ SvIdle /\ XIdle
    /\ ckKind \in CmpKinds
    /\ gotA = << >> /\ expA = << >>
    /\ ci = 0 /\ ckCnt = 0 /\ ret = -1 /\ printed = 0 /\ diagLast = -1

DgStep ==
    /\ ci < NDiag
    /\ \E got \in CmpVals, exp \in CmpVals : CkCompare(got, exp)
    /\ ci' = ci + 1
    /\ UNCHANGED <<ckKind, gotA, expA, ret>>
    /\ UNCHANGED dutVars /\ UNCHANGED dvVars /\ UNCHANGED tbVars
    /\ UNCHANGED svVars /\ UNCHANGED xVars

DgFinish ==
    /\ ci = NDiag /\ ret = -1
    /\ ret' = IF ckKind = "tb" THEN TbExit(ckCnt) ELSE HostExit(ckCnt)
    /\ UNCHANGED <<ckKind, gotA, expA, ci, ckCnt, printed, diagLast>>
    /\ UNCHANGED dutVars /\ UNCHANGED dvVars /\ UNCHANGED tbVars
    /\ UNCHANGED svVars /\ UNCHANGED xVars

SpecDiag == DgInit /\ [][DgStep \/ DgFinish]_vars

\* C11: at most 10 per-mismatch diagnostic lines are printed, in every
\* checker, while the mismatch count itself is not capped.
BoundedDiag ==
    /\ printed <= MaxDiag
    /\ printed <= ckCnt

\* C12: with exactly one mismatching position k, the host checker counts one
\* mismatch, prints one diagnostic naming k (0-based), compares all N
\* positions and returns 5.
SingleMismatchReported ==
    LET bad == {i \in 1 .. NCmp : gotA[i] # expA[i]}
    IN  (ret # -1 /\ ckKind \in {"cosim", "naive"} /\ Cardinality(bad) = 1)
          => /\ ckCnt = 1 /\ printed = 1
             /\ diagLast = (CHOOSE i \in bad : TRUE) - 1
             /\ ci = NCmp
             /\ ret = 5

\* C12 witness: a host checker returned after a single mismatch at the last
\* position.
SingleMismatchReportedWitness ==
    /\ ret # -1 /\ ckKind = "cosim" /\ ckCnt = 1 /\ diagLast = NCmp - 1

\* C13: the exit code identifies the outcome class: tb_main distinguishes at
\* least success (0), data mismatch (1) and liveness failure (queue not
\* drained, any other code).
ExitIdentifiesOutcome ==
    LET outcome == IF errors # 0 THEN "mismatch"
                   ELSE IF expq # << >> THEN "liveness" ELSE "success"
        class == CASE exitCode = 0 -> "success"
                   [] exitCode = 1 -> "mismatch"
                   [] OTHER -> "liveness"
    IN  phase = "done" => class = outcome

\* ---------------------------------------------------------------------------
\* Host mains with their setup stages: naive C main (src/unnamed/part_000 with
\* src/sw/utils.h) and cosim_tb main (src/adder/sw/cosim_tb.cpp). hEnv holds
\* what the environment does: the stage whose allocation fails (oom), whether
\* the input write succeeds, the
\* simulator's exit status (naive), which of vlib/vlog/vsim fails or whether
\* run_cmd's fs::current_path throws (tool = "cwd", cosim), the
\* number of tokens in the output file (-1: missing) and the number of
\* mismatching samples. hNdebug: the naive main is built with NDEBUG.
\* ---------------------------------------------------------------------------

\* Exit status of a process ended by abort() (128 + SIGABRT).
AbortStatus == 134

\* launch_sim: system(VSIM_CMD) != 0 -> return 3.
LaunchSim(simOK) == IF simOK THEN 0 ELSE 3

\* read_outputs: -1 if the file cannot be opened, -2 if fewer than n values
\* can be read, 0 otherwise (reads exactly n values).
ReadOutputsNaive(fileLen, n) ==
    IF fileLen = -1 THEN -1 ELSE IF fileLen < n THEN -2 ELSE 0

\* read_outputs_txt then the length check: 4 on a missing file or when the
\* number of tokens differs from COSIM_N, 0 otherwise.
ReadOutputsCosim(fileLen, n) ==
    IF fileLen = -1 THEN 4 ELSE IF fileLen # n THEN 4 ELSE 0

FileLens == {-1} \cup (0 .. HostN + 1)

HostInit ==
    /\ DutInit
    /\ acc = << >> /\ comp = << >> /\ stim = "on"
    /\ TbIdle /\ SvIdle /\ CkIdle
    /\ RefIdle /\ SqIdle /\ HdIdle /\ RstIdle /\ FileIdle /\ EdIdle /\ NaIdle /\ TpIdle /\ TkIdle
    /\ \/ /\ hKind = "naive" /\ hNdebug \in BOOLEAN /\ hpc = "alloc"
          /\ hEnv \in [oom : {"none", "start"}, write : BOOLEAN, sim : BOOLEAN,
                       tool : {"none"}, fileLen : FileLens, mism : 0 .. 1]
       \/ /\ hKind = "cosim" /\ hNdebug = FALSE /\ hpc = "alloc"
          /\ hEnv \in [oom : {"none", "start", "write", "sim", "read"},
                       write : BOOLEAN, sim : {TRUE},
                       tool : {"none", "vlib", "vlog", "vsim", "cwd"},
                       fileLen : FileLens, mism : 0 .. 1]
    /\ hRet = -1 /\ hCompared = FALSE /\ hRead = FALSE /\ hSimFailed = FALSE

HostOthers ==
    /\ UNCHANGED dutVars /\ UNCHANGED dvVars /\ UNCHANGED tbVars
    /\ UNCHANGED svVars /\ UNCHANGED ckVars
    /\ UNCHANGED refVars /\ UNCHANGED sqVars /\ UNCHANGED hdVars /\ UNCHANGED rstVars /\ UNCHANGED fileVars
    /\ UNCHANGED edgeVars /\ UNCHANGED naVars /\ UNCHANGED tpVars /\ UNCHANGED tkVars

\* naive: if (!in || !gld || !out) return 1; cosim: the std::string /
\* std::vector allocations throw std::bad_alloc, which nothing catches, so
\* std::terminate aborts the process (also in the later stages: the
\* ofstream of write_inputs_txt, the command strings of run_cmd, the ifstream
\* and the vector growth of read_outputs_txt).
HAlloc ==
    /\ hpc = "alloc"
    /\ IF hEnv.oom # "start" THEN hpc' = "write" /\ UNCHANGED hRet
       ELSE hpc' = "done" /\ hRet' = IF hKind = "naive" THEN 1 ELSE AbortStatus
    /\ UNCHANGED <<hKind, hNdebug, hCompared, hRead, hSimFailed, hEnv>>
    /\ HostOthers

\* write_inputs / write_inputs_txt failure: return 2.
HWrite ==
    /\ hpc = "write"
    /\ IF hEnv.oom = "write" THEN hpc' = "done" /\ hRet' = AbortStatus
       ELSE IF hEnv.write THEN hpc' = "sim" /\ UNCHANGED hRet
       ELSE hpc' = "done" /\ hRet' = 2
    /\ UNCHANGED <<hKind, hNdebug, hCompared, hRead, hSimFailed, hEnv>>
    /\ HostOthers

\* naive: assert(launch_sim() == 0) -- removed with NDEBUG, abort() when it
\* fails otherwise; cosim: vlib, vlog, vsim, each non-zero status returns 3;
\* an exception of fs::current_path in run_cmd is rethrown by its catch (...)
\* and, uncaught in main, aborts the process. An allocation failure while
\* building vlog_cmd / vsim_cmd either throws outside an inserter (a string
\* temporary: abort) or is caught by the ostream inserter, which sets badbit:
\* the truncated command still runs and its status is the tool outcome.
HSim ==
    \E hAbort \in BOOLEAN :
    /\ hpc = "sim"
    /\ IF hKind = "naive"
         THEN IF hNdebug
                THEN hpc' = "read" /\ UNCHANGED <<hRet, hSimFailed>>
                ELSE IF LaunchSim(hEnv.sim) # 0
                       THEN /\ hpc' = "done" /\ hRet' = AbortStatus
                            /\ hSimFailed' = TRUE
                       ELSE hpc' = "read" /\ UNCHANGED <<hRet, hSimFailed>>
         ELSE IF hEnv.tool = "cwd"
                THEN /\ hpc' = "done" /\ hRet' = AbortStatus
                     /\ UNCHANGED hSimFailed
         ELSE IF hEnv.oom = "sim" /\ hAbort
                THEN /\ hpc' = "done" /\ hRet' = AbortStatus
                     /\ UNCHANGED hSimFailed
         ELSE IF hEnv.tool # "none"
                THEN /\ hpc' = "done" /\ hRet' = 3 /\ hSimFailed' = TRUE
                ELSE hpc' = "read" /\ UNCHANGED <<hRet, hSimFailed>>
    /\ UNCHANGED <<hKind, hNdebug, hCompared, hRead, hEnv>>
    /\ HostOthers

\* Read the outputs: naive returns 4 when read_outputs != 0, cosim returns 4
\* on a read failure or a length mismatch, and aborts on std::bad_alloc.
HRead ==
    /\ hpc = "read"
    /\ hRead' = TRUE
    /\ IF hEnv.oom = "read" THEN hpc' = "done" /\ hRet' = AbortStatus ELSE
       LET bad == IF hKind = "naive"
                    THEN ReadOutputsNaive(hEnv.fileLen, HostN) # 0
                    ELSE ReadOutputsCosim(hEnv.fileLen, HostN) # 0
       IN  IF bad THEN hpc' = "done" /\ hRet' = 4
           ELSE hpc' = "cmp" /\ UNCHANGED hRet
    /\ UNCHANGED <<hKind, hNdebug, hCompared, hSimFailed, hEnv>>
    /\ HostOthers

\* Compare loop and final status.
HCmp ==
    /\ hpc = "cmp"
    /\ hCompared' = TRUE
    /\ hpc' = "done" /\ hRet' = HostExit(hEnv.mism)
    /\ UNCHANGED <<hKind, hNdebug, hRead, hSimFailed, hEnv>>
    /\ HostOthers

HostNext == HAlloc \/ HWrite \/ HSim \/ HRead \/ HCmp

SpecHost == HostInit /\ [][HostNext]_vars

\* C14: when the simulator/tool exits non-zero, the checker stops before any
\* comparison and returns the setup-failure status 3.
SimFailureIsSetup ==
    (hpc = "done" /\ hSimFailed) => (hRet = 3 /\ ~hCompared)

\* C15: when the output file holds a number of tokens different from N, the
\* checker returns 4 without comparing (runs where no allocation fails).
LengthMismatchIsSetup ==
    (hpc = "done" /\ hRead /\ hEnv.oom = "none"
       /\ hEnv.fileLen # -1 /\ hEnv.fileLen # HostN)
        => (hRet = 4 /\ ~hCompared)

\* ---------------------------------------------------------------------------
\* Reference sums (SpecRef): the DUT's stored sum, tb_main's expectation
\* (a + b) & mask and cosim_tb's (uint32_t)((uint64_t)a + (uint64_t)b).
\* ---------------------------------------------------------------------------

\* Bitwise AND of two naturals.
RECURSIVE BitAnd(_, _)
BitAnd(x, y) ==
    IF x = 0 \/ y = 0 THEN 0
    ELSE 2 * BitAnd(x \div 2, y \div 2) + (IF x % 2 = 1 /\ y % 2 = 1 THEN 1 ELSE 0)

\* tb_main: expq.push((a + b) & mask)
TbExpected(a, b) == BitAnd(a + b, Mask)

\* Conversion to the W-bit unsigned type (uint32_t for W = 32).
CastW(x) == x % Mod

\* cosim_tb: (uint32_t)((uint64_t)in[i].first + (uint64_t)in[i].second)
\* Variant of CosimExpected without the cast to uint32_t.
CosimExpectedNoWrap(a, b) == a + b

CosimExpected(a, b) == CastW(a + b)

\* Any DUT state that accepts an input (spill buffer free), any operands,
\* any out_ready.
RefInit ==
    /\ outV \in BOOLEAN /\ outD \in Vals /\ spV = FALSE /\ spD \in Vals
    /\ acc = << >> /\ comp = << >> /\ stim = "on"
    /\ TbIdle /\ SvIdle /\ CkIdle /\ HostIdle /\ SqIdle /\ HdIdle /\ RstIdle /\ FileIdle /\ EdIdle /\ NaIdle /\ TpIdle /\ TkIdle
    /\ rfA \in Vals /\ rfB \in Vals /\ rfReady \in BOOLEAN
    /\ rfTb = 0 /\ rfCo = 0 /\ rfDone = FALSE

\* One posedge accepting (a, b), and the checkers' expected values.
RefEval ==
    /\ ~rfDone
    /\ DutEdge(TRUE, rfA, rfB, rfReady)
    /\ rfTb' = TbExpected(rfA, rfB)
    /\ rfCo' = CosimExpected(rfA, rfB)
    /\ rfDone' = TRUE
    /\ UNCHANGED <<rfA, rfB, rfReady>>
    /\ UNCHANGED dvVars /\ UNCHANGED tbVars /\ UNCHANGED svVars
    /\ UNCHANGED ckVars /\ UNCHANGED hostVars /\ UNCHANGED sqVars
    /\ UNCHANGED hdVars /\ UNCHANGED rstVars /\ UNCHANGED fileVars
    /\ UNCHANGED edgeVars /\ UNCHANGED naVars /\ UNCHANGED tpVars /\ UNCHANGED tkVars

SpecRef == RefInit /\ [][RefEval]_vars

\* C16: the DUT's stored sum (out buffer, or spill buffer when out_buf was
\* busy), tb_main's and cosim_tb's expected values all equal (a + b) mod 2^W;
\* the directed inputs (0,0),(1,0),(0,1),(1,1),(max,1) give 0,1,1,2,0.
ReferenceSum ==
    LET ref == (rfA + rfB) % (2 ^ W)
        produced == IF spV THEN spD ELSE outD
        dirExp == <<0, 1, 1, 2, 0>>
    IN  rfDone =>
          /\ produced = ref /\ rfTb = ref /\ rfCo = ref
          /\ \A i \in 1 .. 5 : <<rfA, rfB>> = DirVecs[i] => produced = dirExp[i]

\* C16 witness: (max, 1) wraps to 0 and is stored in the spill buffer.
ReferenceSumWitness ==
    /\ rfDone /\ spV /\ rfA = Mask /\ rfB = 1

\* ---------------------------------------------------------------------------
\* Naive squaring dut (src/naive/rtl/dut.v) and the C golden model
\* (src/unnamed/part_000). A DATAW-bit value is held as its bit pattern.
\* ---------------------------------------------------------------------------

\* Number of C samples and offset: in[i] = (int)(i - 512), i < N = 1024.
NIn == 1024
CHalf == 512

\* Two's complement value of a w-bit pattern.
SignedOf(p, w) == IF p >= 2 ^ (w - 1) THEN p - 2 ^ w ELSE p

\* (a * b) mod m by shift-and-add, for 0 <= a, b < m.
RECURSIVE MulMod(_, _, _)
MulMod(a, b, m) ==
    IF b = 0 THEN 0
    ELSE (2 * MulMod(a, b \div 2, m) + (b % 2) * a) % m

\* Variant of DutSquare evaluating the product in DATAW bits.
DutSquareNarrow(p, w) ==
    LET m == 2 ^ w
    IN  SignedOf(MulMod(p, p, m), w)

\* out_data <= in_data * in_data: signed operands sign-extended to the
\* 2*DATAW-bit context of out_data, product taken modulo 2^(2*DATAW).
DutSquare(p, w) ==
    LET m == 2 ^ (2 * w)
        ext == SignedOf(p, w) % m
    IN  SignedOf(MulMod(ext, ext, m), 2 * w)

\* in[i] = (int)(i - 512): the size_t difference converted back to int is
\* i - 512 for i < 1024.
CIn(i) == i - CHalf

\* gld[i] = in[i] * in[i] (int; |in[i]| <= 512, no overflow).
CSquare(x) == x * x

SqInit ==
    /\ DutInit
    /\ acc = << >> /\ comp = << >> /\ stim = "on"
    /\ TbIdle /\ SvIdle /\ CkIdle /\ HostIdle /\ RefIdle /\ HdIdle /\ RstIdle /\ FileIdle /\ EdIdle /\ NaIdle /\ TpIdle /\ TkIdle
    /\ \/ sqMode = "rtl" /\ sqX \in 0 .. 2 ^ DataW - 1
       \/ sqMode = "c" /\ sqX \in 0 .. NIn - 1
    /\ sqOut = 0 /\ sqGld = 0 /\ sqDone = FALSE

\* One accepted input: rtl mode squares the DATAW-bit pattern sqX; c mode
\* feeds in[sqX] (as a DataWC-bit pattern) and computes gld[sqX].
SqStep ==
    /\ ~sqDone
    /\ IF sqMode = "rtl"
         THEN sqOut' = DutSquare(sqX, DataW) /\ sqGld' = 0
         ELSE /\ sqOut' = DutSquare(CIn(sqX) % (2 ^ DataWC), DataWC)
              /\ sqGld' = CSquare(CIn(sqX))
    /\ sqDone' = TRUE
    /\ UNCHANGED <<sqMode, sqX>>
    /\ UNCHANGED dutVars /\ UNCHANGED dvVars /\ UNCHANGED tbVars
    /\ UNCHANGED svVars /\ UNCHANGED ckVars /\ UNCHANGED hostVars
    /\ UNCHANGED refVars /\ UNCHANGED hdVars /\ UNCHANGED rstVars /\ UNCHANGED fileVars
    /\ UNCHANGED edgeVars /\ UNCHANGED naVars /\ UNCHANGED tpVars /\ UNCHANGED tkVars

SpecSq == SqInit /\ [][SqStep]_vars

\* C17: out_data equals the mathematical x * x for every signed DATAW-bit x,
\* and equals gld[i] for the C inputs i - 512.
SquareWidens ==
    sqDone =>
      /\ sqMode = "rtl" => sqOut = SignedOf(sqX, DataW) * SignedOf(sqX, DataW)
      /\ sqMode = "c" => sqOut = sqGld

\* C17 witness: the most negative input, whose square needs the full width.
SquareWidensWitness ==
    sqDone /\ sqMode = "rtl" /\ sqX = 2 ^ (DataW - 1)

\* ---------------------------------------------------------------------------
\* Single held transaction (SpecHold): send_item offers (5, 7) to the adder,
\* holding it until a posedge with in_ready = 1, then deasserts. The adder
\* starts in any reachable state holding earlier transactions of other values.
\* ---------------------------------------------------------------------------

HoldMod == 2 ^ HoldW
HoldPair == <<5, 7>>
PriorVals == {1, 2}

HdInit ==
    /\ outV \in BOOLEAN /\ spV \in BOOLEAN /\ (spV => outV)
    /\ outD \in PriorVals /\ spD \in PriorVals
    /\ acc = << >> /\ comp = << >> /\ stim = "on"
    /\ TbIdle /\ SvIdle /\ CkIdle /\ HostIdle /\ RefIdle /\ SqIdle /\ RstIdle /\ FileIdle /\ EdIdle /\ NaIdle /\ TpIdle /\ TkIdle
    /\ hdPc = "offer" /\ hdCyc = 0 /\ hdAccAt = -1 /\ hdComps = << >>
    /\ hdCompAt = -1
    /\ hdPrior = (IF outV THEN <<outD>> ELSE << >>) \o (IF spV THEN <<spD>> ELSE << >>)

\* One clock cycle: the producer drives in_valid while its item is pending,
\* the consumer picks out_ready; accept and complete are the pre-edge
\* handshakes.
HdEdge ==
    /\ hdCyc < HoldCycles
    /\ \E outReady \in BOOLEAN :
         LET inValid == hdPc = "offer"
             n == AdderNextM(outV, outD, spV, spD, inValid, HoldPair[1], HoldPair[2],
                             outReady, HoldMod)
             accepted == inValid /\ InReady(spV)
             completed == outV /\ outReady
         IN  /\ outV' = n[1] /\ outD' = n[2] /\ spV' = n[3] /\ spD' = n[4]
             /\ hdPc' = IF accepted THEN "sent" ELSE hdPc
             /\ hdAccAt' = IF accepted THEN hdCyc ELSE hdAccAt
             /\ hdComps' = IF completed THEN Append(hdComps, outD) ELSE hdComps
             /\ hdCompAt' = IF completed /\ outD = AddMod(HoldPair[1], HoldPair[2], HoldMod)
                              THEN hdCyc ELSE hdCompAt
    /\ hdCyc' = hdCyc + 1
    /\ UNCHANGED hdPrior
    /\ UNCHANGED dvVars /\ UNCHANGED tbVars /\ UNCHANGED svVars
    /\ UNCHANGED ckVars /\ UNCHANGED hostVars /\ UNCHANGED refVars
    /\ UNCHANGED sqVars /\ UNCHANGED rstVars /\ UNCHANGED fileVars
    /\ UNCHANGED edgeVars /\ UNCHANGED naVars /\ UNCHANGED tpVars /\ UNCHANGED tkVars

SpecHold == HdInit /\ [][HdEdge]_vars

\* C18: (5,7) held until accepted on exactly one edge yields exactly one
\* completion, of value 12, on an edge strictly after the acceptance edge;
\* once the adder is empty the completions are the earlier items then 12.
SingleHeldTransaction ==
    LET n12 == Cardinality({k \in 1 .. Len(hdComps) : hdComps[k] = 12})
    IN  /\ n12 <= 1
        /\ n12 = 1 => (hdAccAt # -1 /\ hdCompAt > hdAccAt)
        /\ (hdAccAt # -1 /\ ~outV /\ ~spV) => hdComps = hdPrior \o <<12>>

\* C18 witness: offered for three cycles, accepted on the third, completed.
SingleHeldTransactionWitness ==
    /\ hdAccAt = 2 /\ hdCompAt # -1 /\ ~outV

\* C19: the adder holds at most 2 accepted-but-not-completed transactions
\* (out_buf_valid + spill_buf_valid), and in the randomized phase expq's
\* length equals that count after each edge's bookkeeping.
QueueMatchesOccupancy ==
    LET occ == (IF outV THEN 1 ELSE 0) + (IF spV THEN 1 ELSE 0)
    IN  /\ occ <= 2
        /\ phase = "rnd" => Len(expq) = occ

\* C19 witness: both buffers full during the randomized phase.
QueueMatchesOccupancyWitness ==
    phase = "rnd" /\ Len(expq) = 2

\* ---------------------------------------------------------------------------
\* tb_main reset loop (SpecReset): power-up with any register contents, four
\* clock cycles with rst_n = 0, in_valid = 0, out_ready = 0, then rst_n = 1
\* and the directed phase.
\* ---------------------------------------------------------------------------

NReset == 4

\* Variant of DutReset leaving out_buf_valid / out_buf_data as they were.
DutResetHold(ov, od, sv, sd) == <<ov, od, FALSE, 0>>

\* adder_rv_simple reset branch (if (!rst_n)): clear both valid flags and data.
DutReset(ov, od, sv, sd) == <<FALSE, 0, FALSE, 0>>

RstInit ==
    /\ outV \in BOOLEAN /\ outD \in Vals /\ spV \in BOOLEAN /\ spD \in Vals
    /\ acc = << >> /\ comp = << >> /\ stim = "on"
    /\ phase = "reset" /\ idx = 0 /\ expq = << >> /\ errors = 0
    /\ exitCode = -1 /\ mism = 0 /\ viol = 0
    /\ drv = [valid |-> FALSE, a |-> 0, b |-> 0, acc |-> FALSE]
    /\ chk = [dec |-> FALSE, got |-> 0, preComp |-> FALSE, preSum |-> 0]
    /\ edge = [acc |-> FALSE, comp |-> FALSE, headBefore |-> FALSE,
               popNew |-> FALSE, violCounted |-> FALSE]
    /\ SvIdle /\ CkIdle /\ HostIdle /\ RefIdle /\ SqIdle /\ HdIdle
    /\ RstIdle /\ FileIdle /\ EdIdle /\ NaIdle /\ TpIdle /\ TkIdle

\* One reset cycle: clk = 0 eval, clk = 1 eval with rst_n = 0 and the
\* handshake inputs at their initial values.
RstEdge ==
    /\ phase = "reset" /\ rstCnt < NReset
    /\ LET inValid == FALSE
           outReady == FALSE
           n == DutReset(outV, outD, spV, spD)
       IN  /\ outV' = n[1] /\ outD' = n[2] /\ spV' = n[3] /\ spD' = n[4]
           /\ rstEvt' = (rstEvt \/ (inValid /\ InReady(spV))
                                \/ (outV /\ outReady))
    /\ rstCnt' = rstCnt + 1
    /\ UNCHANGED tbVars /\ UNCHANGED dvVars /\ UNCHANGED svVars
    /\ UNCHANGED ckVars /\ UNCHANGED hostVars /\ UNCHANGED refVars
    /\ UNCHANGED sqVars /\ UNCHANGED hdVars /\ UNCHANGED fileVars
    /\ UNCHANGED edgeVars /\ UNCHANGED naVars /\ UNCHANGED tpVars /\ UNCHANGED tkVars

\* top->rst_n = 1; the directed phase starts.
RstRelease ==
    /\ phase = "reset" /\ rstCnt = NReset
    /\ phase' = "dir"
    /\ UNCHANGED <<idx, expq, errors, exitCode, mism, viol, drv, chk, edge>>
    /\ UNCHANGED dutVars /\ UNCHANGED dvVars /\ UNCHANGED otherVars

SpecReset == RstInit /\ [][RstEdge \/ RstRelease \/ TbNext]_vars

\* C21: no accept (in_valid && in_ready) and no completion (out_valid &&
\* out_ready) happens on a reset edge, and when the directed phase starts
\* after the NReset reset cycles the DUT holds no data and expq is empty.
ResetWarmup ==
    /\ ~rstEvt
    /\ (phase = "dir" /\ idx = 0) =>
          (~outV /\ ~spV /\ expq = << >> /\ rstCnt = NReset)

\* C21 witness: reset released and the directed phase about to start.
ResetWarmupWitness ==
    phase = "dir" /\ idx = 0 /\ rstCnt = NReset

\* tb_main final report: "TEST FAIL: <errors> mismatches" when errors != 0,
\* "TEST PASS" otherwise.
TbReport(e) ==
    IF e # 0 THEN [fail |-> TRUE, mismatches |-> e]
    ELSE [fail |-> FALSE, mismatches |-> 0]

\* C22: the final report keeps outcome classes apart: the number it reports
\* as mismatches is the number of data mismatches (protocol violations not
\* included), and a run that ends with expectations still queued (a hang) is
\* reported as a failure.
OutcomeClassesSeparate ==
    phase = "done" =>
        /\ TbReport(errors).mismatches = mism
        /\ (expq # << >> => TbReport(errors).fail)

\* ---------------------------------------------------------------------------
\* File-based flow (SpecFile): cosim_tb generates FileN pairs and writes them
\* with write_inputs_txt, the SV harness reads them with $fscanf("%h %h"),
\* drives the DUT with out_ready = 1 and writes "%08h" lines, and cosim_tb
\* reads the tokens back as hex and compares them index-wise.
\* ---------------------------------------------------------------------------

\* write_inputs_txt: std::hex, setw(8), setfill('0').
InputField(v) == HexDigits(v, 8)

\* read_outputs_txt: one token parsed with std::hex into uint32_t (a token of
\* at most 8 digits never sets failbit).
HostReadHex(d) == ParseHex(d)

\* The compare loop of cosim_tb main: number of i with got[i] != exp.
FileMismatches(got) ==
    Cardinality({i \in 1 .. Len(fileIn) :
                   got[i] # CosimExpected(fileIn[i][1], fileIn[i][2])})

\* Host has written the input file; the harness is past reset and file open.
FileStart ==
    /\ DutInit
    /\ acc = << >> /\ comp = << >> /\ stim = "on"
    /\ TbIdle /\ CkIdle /\ HostIdle /\ RefIdle /\ SqIdle /\ HdIdle /\ RstIdle
    /\ EdIdle /\ NaIdle /\ TpIdle /\ TkIdle
    /\ fileIn \in [1 .. FileN -> Vals \X Vals]
    \* write_inputs_txt: each line is a ' ' b '\n' as ASCII codes
    /\ fin = Concat([i \in 1 .. FileN |->
                    [k \in 1 .. 8 |-> HexChar(InputField(fileIn[i][1])[k])] \o <<ChSp>>
                    \o [k \in 1 .. 8 |-> HexChar(InputField(fileIn[i][2])[k])] \o <<ChNl>>])
    /\ svInValid = FALSE /\ svInA = 0 /\ svInB = 0 /\ clkHigh = TRUE
    /\ nSent = 0 /\ nWritten = 0 /\ accSeq = << >> /\ stalled = FALSE
    /\ svOut = << >>
    /\ LET m == MainLoop(fin, 1, FALSE)
       IN  svpc = "neg1" /\ fpos = m.pos /\ cur = <<m.a, m.b>>

\* posedge of the harness as written: out_ready = 1.
SvPosedgeHeld == SvPosedgeAt(TRUE)

SpecFile == FileStart /\ [][SvNegedge \/ SvPosedgeHeld]_vars

\* C23: the harness writes one line per completion, the i-th line parses to
\* (a_i + b_i) mod 2^W of the i-th generated pair, and when it finishes there
\* is one line per input pair and the host's index-wise compare counts no
\* mismatch.
FileAligned ==
    LET got == [i \in 1 .. Len(svOut) |-> HostReadHex(svOut[i])]
    IN  /\ Len(svOut) = nWritten
        /\ Len(svOut) <= Len(fileIn)
        /\ \A i \in 1 .. Len(svOut) :
              got[i] = CosimExpected(fileIn[i][1], fileIn[i][2])
        /\ svpc = "done" =>
              (Len(got) = Len(fileIn) /\ FileMismatches(got) = 0)

\* C23 witness: the harness finished, every pair produced a line, and one
\* sum wrapped.
FileAlignedWitness ==
    /\ svpc = "done" /\ Len(svOut) = FileN
    /\ \E i \in 1 .. FileN : fileIn[i][1] + fileIn[i][2] >= Mod

\* The harness as written (out_ready = 1, adder_rv_simple) on any input
\* file; the clock keeps toggling (always #5 clk = ~clk).
SpecFileLive ==
    /\ SvInit /\ [][SvNegedge \/ SvPosedgeHeld]_vars
    /\ WF_vars(SvNegedge) /\ WF_vars(SvPosedgeHeld)

\* C24 (the part about adder_rv_simple): for every input file the harness
\* reaches $finish with n_written == n_sent.
HarnessTerminates == <>(svpc = "done" /\ nWritten = nSent)

\* ---------------------------------------------------------------------------
\* adder_rv_simple edge by edge (SpecEdge): from reset, every posedge takes
\* any in_valid / in_a / in_b / out_ready; edPre and edIn record the
\* registers before the last edge and the inputs it saw.
\* ---------------------------------------------------------------------------

EdInit ==
    /\ DutInit
    /\ acc = << >> /\ comp = << >> /\ stim = "on"
    /\ TbIdle /\ SvIdle /\ CkIdle /\ HostIdle /\ RefIdle /\ SqIdle /\ HdIdle
    /\ RstIdle /\ FileIdle /\ EdIdle /\ NaIdle /\ TpIdle /\ TkIdle

\* One posedge with the given out_ready and any producer inputs.
EdStepWith(outReady) ==
    \E inValid \in BOOLEAN, a \in Vals, b \in Vals :
        /\ edPre' = [ov |-> outV, od |-> outD, sv |-> spV, sd |-> spD]
        /\ edIn' = [set |-> TRUE, valid |-> inValid, a |-> a, b |-> b,
                    ready |-> outReady]
        /\ DutEdge(inValid, a, b, outReady)
        /\ UNCHANGED dvVars /\ UNCHANGED tbVars /\ UNCHANGED svVars
        /\ UNCHANGED ckVars /\ UNCHANGED hostVars /\ UNCHANGED refVars
        /\ UNCHANGED sqVars /\ UNCHANGED hdVars /\ UNCHANGED rstVars
        /\ UNCHANGED fileVars /\ UNCHANGED naVars /\ UNCHANGED tpVars /\ UNCHANGED tkVars

EdStep == \E outReady \in BOOLEAN : EdStepWith(outReady)

SpecEdge == EdInit /\ [][EdStep]_vars

\* C25: on an edge where out_buf_ready and spill_buf_valid hold, out_buf is
\* loaded with the spill data, the spill buffer is cleared, and no input is
\* accepted (in_ready = 0).
DrainFirst ==
    (edIn.set /\ OutBufReady(edPre.ov, edIn.ready) /\ edPre.sv) =>
        /\ outV /\ outD = edPre.sd /\ ~spV
        /\ ~(edIn.valid /\ InReady(edPre.sv))

\* C25 witness: such an edge while the producer offered an input.
DrainFirstWitness ==
    /\ edIn.set /\ OutBufReady(edPre.ov, edIn.ready) /\ edPre.sv
    /\ edIn.valid /\ edPre.sd # AddW(edIn.a, edIn.b)

\* C26: spill_buf_valid implies out_buf_valid in every reachable state.
SpillImpliesOut == spV => outV

\* C26 witness: the spill buffer is occupied.
SpillImpliesOutWitness == spV /\ edIn.set

\* C27: on an edge with out_valid = 1 and out_ready = 0 before it, out_valid
\* stays 1 and out_sum keeps its value.
OutputStable ==
    (edIn.set /\ edPre.ov /\ ~edIn.ready) => (outV /\ outD = edPre.od)

\* C27 witness: a stalled edge where an input with a different sum was
\* offered.
OutputStableWitness ==
    /\ edIn.set /\ edPre.ov /\ ~edIn.ready /\ edIn.valid
    /\ edPre.od # AddW(edIn.a, edIn.b)

\* The consumer holds out_ready = 1 on every edge after reset.
SpecEdgeReady == EdInit /\ [][EdStepWith(TRUE)]_vars

\* C28: with out_ready = 1 on every edge, spill_buf_valid stays 0, in_ready
\* stays 1, and every offered input is accepted on the edge it is offered,
\* its sum going to out_buf.
FullThroughput ==
    /\ ~spV /\ InReady(spV)
    /\ (edIn.set /\ edIn.valid) =>
          (InReady(edPre.sv) /\ outV /\ outD = AddW(edIn.a, edIn.b))

\* C28 witness: an input accepted while out_buf held an earlier sum.
FullThroughputWitness ==
    edIn.set /\ edIn.valid /\ edPre.ov /\ edPre.od # AddW(edIn.a, edIn.b)

\* Any producer and consumer; edges with out_ready = 1 keep coming.
SpecEdgeFair == SpecEdge /\ WF_vars(EdStepWith(TRUE))

\* C29: in_ready is 1 infinitely often.
InReadyRecurs == []<>InReady(spV)

\* C29 witness: in_ready back at 1 after the spill buffer was drained.
InReadyRecursWitness == edIn.set /\ edPre.sv /\ InReady(spV)

\* ---------------------------------------------------------------------------
\* Naive dut (src/naive/rtl/dut.v) after reset under any producer and any
\* out_ready pattern (SpecNaive). in_data ranges over DATAW-bit patterns.
\* ---------------------------------------------------------------------------

NaVals == 0 .. 2 ^ DataW - 1

\* assign in_ready = rst_n;
NaiveInReady(rst) == rst

\* One posedge (rst_n = 1): next <<out_valid, out_data>>.
NaiveNext(ov, od, inValid, x, inReady, outReady, w) ==
    IF inValid /\ inReady THEN <<TRUE, DutSquare(x, w)>>
    ELSE IF ov /\ outReady THEN <<FALSE, od>>
    ELSE <<ov, od>>

NaInit ==
    /\ DutInit
    /\ acc = << >> /\ comp = << >> /\ stim = "on"
    /\ TbIdle /\ SvIdle /\ CkIdle /\ HostIdle /\ RefIdle /\ SqIdle /\ HdIdle
    /\ RstIdle /\ FileIdle /\ EdIdle /\ NaIdle /\ TpIdle /\ TkIdle

\* A clock edge: the producer offers in_data (at most NaMaxAcc inputs), the
\* consumer drives out_ready; an acceptance is in_valid && in_ready and a
\* completion out_valid && out_ready, both before the edge.
NaStep ==
    \E inValid \in BOOLEAN, x \in NaVals, outReady \in BOOLEAN :
        LET rdy == NaiveInReady(TRUE)
            n == NaiveNext(naV, naD, inValid, x, rdy, outReady, DataW)
        IN  /\ inValid => Len(naAcc) < NaMaxAcc
            /\ naV' = n[1] /\ naD' = n[2]
            /\ naAcc' = IF inValid /\ rdy THEN Append(naAcc, x) ELSE naAcc
            /\ naComp' = IF naV /\ outReady THEN Append(naComp, naD) ELSE naComp
            /\ UNCHANGED dutVars /\ UNCHANGED dvVars /\ UNCHANGED tbVars
            /\ UNCHANGED svVars /\ UNCHANGED ckVars /\ UNCHANGED hostVars
            /\ UNCHANGED refVars /\ UNCHANGED sqVars /\ UNCHANGED hdVars
            /\ UNCHANGED rstVars /\ UNCHANGED fileVars /\ UNCHANGED edgeVars
            /\ UNCHANGED tpVars /\ UNCHANGED tkVars

SpecNaive == NaInit /\ [][NaStep]_vars

\* C30: every accepted input yields exactly one completion carrying its
\* square, in order: the completions so far are the squares of the first
\* accepted inputs, and the accepted inputs not yet completed are exactly the
\* one held in out_data when out_valid is 1.
NaivePreserves ==
    LET sq == [i \in 1 .. Len(naAcc) |-> DutSquare(naAcc[i], DataW)]
    IN  /\ Len(naComp) + (IF naV THEN 1 ELSE 0) = Len(naAcc)
        /\ naComp = SubSeq(sq, 1, Len(naComp))

\* ---------------------------------------------------------------------------
\* Naive harness tb_top (src/adder/sw/cosim_tb.cpp) with the naive dut and
\* out_ready = 1 (SpecTbTop). The input file is a sequence of whitespace
\* separated tokens: a decimal number or a token %d cannot parse. One action
\* is one posedge clk after reset release: the dut's always block, the
\* monitor, the driver and finish_guard, with nonblocking updates seen only
\* after the edge. finish_guard's $feof may run before or after the driver's
\* $fscanf in the same time step (no ordering between initial blocks).
\* ---------------------------------------------------------------------------

TpSampleVals == {-1, 2}

\* Tokens of the input file: a decimal sample, or junk, a token %d cannot
\* read at all (e.g. '#'; a single x/z digit is read by SV %d as an X
\* sample, not junk).
TpTokens ==
    [k : {"num"}, v : TpSampleVals] \cup [k : {"junk"}, v : {0}]

\* timeout_ns = 10_000_000 at a 10 ns clock period.
TpTimeoutCycles == 1000000

\* $fscanf(fin, "%d\n", sample) at token pos: the return code, the next
\* position, the end-of-file indicator afterwards and the value. A number is
\* consumed together with the whitespace after it (which meets end of file
\* after the last token); a token %d cannot parse is left in place.
TpScan(tok, pos) ==
    IF pos > Len(tok)
      THEN [code |-> -1, pos |-> pos, eof |-> TRUE, v |-> 0]
    ELSE IF tok[pos].k = "junk"
      THEN [code |-> 0, pos |-> pos, eof |-> FALSE, v |-> 0]
    ELSE [code |-> 1, pos |-> pos + 1, eof |-> pos + 1 > Len(tok),
          v |-> tok[pos].v]

\* After reset release and file open.
TpInit ==
    /\ DutInit
    /\ acc = << >> /\ comp = << >> /\ stim = "on"
    /\ TbIdle /\ SvIdle /\ CkIdle /\ HostIdle /\ RefIdle /\ SqIdle /\ HdIdle
    /\ RstIdle /\ FileIdle /\ EdIdle /\ NaIdle /\ TkIdle
    /\ tpTok \in UNION {[1 .. n -> TpTokens] : n \in 0 .. TpN}
    /\ tpPos = 1 /\ tpEof = FALSE /\ tpSt = "idle"
    /\ tpInV = FALSE /\ tpInD = 0 /\ tpSent = 0 /\ tpRecv = 0
    /\ tpOV = FALSE /\ tpOD = 0 /\ tpParsed = 0 /\ tpEnd = "run" /\ tpCyc = 0

TpEdge ==
    /\ tpEnd = "run" /\ tpCyc < TpMaxCyc
    /\ LET rdy == NaiveInReady(TRUE)
           n == NaiveNext(tpOV, tpOD, tpInV, tpInD, rdy, TRUE, DataW)
           r == TpScan(tpTok, tpPos)
           reads == tpSt = "idle" /\ ~tpEof
           eofAfter == IF reads THEN r.eof ELSE tpEof
       IN  /\ tpOV' = n[1] /\ tpOD' = n[2]
           \* monitor
           /\ tpRecv' = IF tpOV THEN tpRecv + 1 ELSE tpRecv
           \* driver
           /\ tpPos' = IF reads THEN r.pos ELSE tpPos
           /\ tpEof' = eofAfter
           /\ CASE reads /\ r.code = 1 ->
                     /\ tpInD' = r.v % (2 ^ DataW) /\ tpInV' = TRUE
                     /\ tpSt' = "have" /\ tpParsed' = tpParsed + 1
                     /\ UNCHANGED tpSent
                [] tpSt = "idle" /\ tpEof ->
                     /\ tpInV' = FALSE
                     /\ UNCHANGED <<tpInD, tpSt, tpParsed, tpSent>>
                [] tpSt = "have" /\ tpInV /\ rdy ->
                     /\ tpSent' = tpSent + 1 /\ tpInV' = FALSE
                     /\ tpSt' = "idle"
                     /\ UNCHANGED <<tpInD, tpParsed>>
                [] OTHER ->
                     UNCHANGED <<tpInD, tpInV, tpSt, tpParsed, tpSent>>
           \* finish_guard
           /\ \E guardFirst \in BOOLEAN :
                LET feofSeen == IF guardFirst THEN tpEof ELSE eofAfter
                    inputsDone == feofSeen /\ ~tpInV
                IN  tpEnd' = IF inputsDone /\ tpRecv = tpSent /\ tpSent # 0
                               THEN "done"
                             ELSE IF tpCyc + 1 >= TpTimeoutCycles
                               THEN "timeout"
                             ELSE "run"
    /\ tpCyc' = tpCyc + 1
    /\ UNCHANGED tpTok
    /\ UNCHANGED dutVars /\ UNCHANGED dvVars /\ UNCHANGED tbVars
    /\ UNCHANGED svVars /\ UNCHANGED ckVars /\ UNCHANGED hostVars
    /\ UNCHANGED refVars /\ UNCHANGED sqVars /\ UNCHANGED hdVars
    /\ UNCHANGED rstVars /\ UNCHANGED fileVars /\ UNCHANGED edgeVars
    /\ UNCHANGED naVars /\ UNCHANGED tkVars

SpecTbTop == TpInit /\ [][TpEdge]_vars

\* C31: sent_cnt counts each parsed sample at most once and recv_cnt each
\* completion at most once; and once the run has ended, or TpMaxCyc edges
\* (far fewer than the timeout) have passed, a run that parsed at least one
\* sample has reached DONE with recv_cnt = sent_cnt = samples parsed.
TbTopAccounting ==
    /\ tpSent <= tpParsed /\ tpRecv <= tpSent
    /\ ((tpEnd # "run" \/ tpCyc = TpMaxCyc) /\ tpParsed >= 1) =>
          (tpEnd = "done" /\ tpRecv = tpSent /\ tpSent = tpParsed)

\* C32: the directed vectors and the directed drain report no error and
\* leave expq empty and both DUT buffers empty when the randomized phase
\* starts.
DirectedClean ==
    (phase = "rnd" /\ idx = 0) =>
        (errors = 0 /\ expq = << >> /\ ~outV /\ ~spV)

\* C32 witness: the randomized phase is about to start, after a drain edge
\* on which out_buf was transferred.
DirectedCleanWitness == phase = "rnd" /\ idx = 0 /\ chk.preComp

\* ---------------------------------------------------------------------------
\* cosim_tb reading outputs.txt (SpecTok): the harness wrote one "%08h" token
\* per completion; a nibble with X (or Z) bits prints as a non-hex character.
\* read_outputs_txt parses each token with std::hex into uint32_t and keeps
\* it unless failbit is set; main then checks the length and compares.
\* ---------------------------------------------------------------------------

\* A z/Z nibble: printed by "%08h" for Z bits; not a hex digit for std::hex
\* and, unlike x, never part of a "0x" prefix.
ZDigit == 17

\* "%08h" tokens: top nibble, five middle nibbles alike, two low nibbles,
\* each a hex digit 0 or 1, an X nibble or a Z nibble.
TokVals ==
    {<<f, m, m, m, m, m, a, b>> :
        f \in {0, XDigit, ZDigit}, m \in {0, XDigit, ZDigit},
        a \in {0, 1, XDigit, ZDigit}, b \in {0, 1, XDigit, ZDigit}}

\* Number of consecutive hex digits of t from position i.
RECURSIVE HexRun(_, _)
HexRun(t, i) ==
    IF i > Len(t) \/ t[i] \in {XDigit, ZDigit} THEN 0 ELSE 1 + HexRun(t, i + 1)

\* ss >> v with std::hex (libstdc++ num_get): an optional "0x" prefix, then
\* the longest run of hex digits; no digit sets failbit. (An 8-digit token
\* never exceeds UINT32_MAX.)
StreamHex(t) ==
    LET st == IF Len(t) >= 2 /\ t[1] = 0 /\ t[2] = XDigit THEN 3 ELSE 1
        k == HexRun(t, st)
    IN  IF k = 0 THEN [ok |-> FALSE, v |-> 0]
        ELSE [ok |-> TRUE, v |-> ParseHex(SubSeq(t, st, st + k - 1))]

\* read_outputs_txt: the values of the tokens whose parse did not fail.
ReadOutputsTokens(out) ==
    LET ok == SelectSeq(out, LAMBDA t : StreamHex(t).ok)
    IN  [i \in 1 .. Len(ok) |-> StreamHex(ok[i]).v]

\* main after vsim: length check (return 4), compare (return 5), pass (0).
TokStatus(got, exp) ==
    IF Len(got) # Len(exp) THEN 4
    ELSE IF \E i \in 1 .. Len(exp) : got[i] # exp[i] THEN 5
    ELSE 0

TkInit ==
    /\ DutInit
    /\ acc = << >> /\ comp = << >> /\ stim = "on"
    /\ TbIdle /\ SvIdle /\ CkIdle /\ HostIdle /\ RefIdle /\ SqIdle /\ HdIdle
    /\ RstIdle /\ FileIdle /\ EdIdle /\ NaIdle /\ TpIdle
    /\ tkOut \in [1 .. TokN -> TokVals]
    /\ tkExp \in [1 .. TokN -> {0, 1}]
    /\ tkRet = -1

TkRead ==
    /\ tkRet = -1
    /\ tkRet' = TokStatus(ReadOutputsTokens(tkOut), tkExp)
    /\ UNCHANGED <<tkOut, tkExp>>
    /\ UNCHANGED dutVars /\ UNCHANGED dvVars /\ UNCHANGED tbVars
    /\ UNCHANGED svVars /\ UNCHANGED ckVars /\ UNCHANGED hostVars
    /\ UNCHANGED refVars /\ UNCHANGED sqVars /\ UNCHANGED hdVars
    /\ UNCHANGED rstVars /\ UNCHANGED fileVars /\ UNCHANGED edgeVars
    /\ UNCHANGED naVars /\ UNCHANGED tpVars

SpecTok == TkInit /\ [][TkRead]_vars

\* C33: an output token carrying X is dropped by read_outputs_txt, so the run
\* ends with the length-mismatch status 4, never with a data mismatch (5) or
\* a pass.
TokXDropped ==
    (tkRet # -1 /\ \E i \in 1 .. TokN : \E j \in 1 .. 8 : tkOut[i][j] = XDigit)
        => tkRet = 4

====
